---- MODULE Spec2Model ----
(***************************************************************************)
(* Model of `jx pipeline wait` (package wait): Options.Run and its two     *)
(* polling loops, waitForRepositoryToBeSetup (trigger phase) and           *)
(* waitForWebHookToBeSetup (webhook phase), with containsRepositoryTrigger.*)
(*                                                                         *)
(* The program is single threaded; pc is the position of Run.  The         *)
(* cluster (the lighthouse ConfigMap, the SourceRepository) and the wall   *)
(* clock are the environment: every load, fetch and sleep draws what the   *)
(* environment answers from a small set.  Time is counted in ticks of the  *)
(* clock's resolution, so an operation may take zero ticks.                *)
(***************************************************************************)
EXTENDS Integers, Sequences, FiniteSets

(***************************************************************************)
(* Bounds of the model.                                                    *)
(***************************************************************************)
MaxWaitDuration == 1   \* largest --duration, in ticks
MaxPollPeriod == 1     \* largest --poll-period, in ticks
MaxFetchTime == 1      \* most ticks one load or fetch takes

WaitDurations == -1 .. MaxWaitDuration
\* The poll period is positive (the flag defaults to two seconds).
PollPeriods == 1 .. MaxPollPeriod
FetchTimes == 0 .. MaxFetchTime
\* time.Sleep(d) pauses for at least d, so the clock advances across a sleep.
SleepTimes(d) == {t \in 1 .. MaxPollPeriod : t >= d}
\* No phase starts a sleep that ends later than this after the phase was
\* entered (SleepsWithinSpan), and no run reads the clock later than Horizon.
PhaseSpan == MaxWaitDuration + MaxPollPeriod
Horizon == 2 * (PhaseSpan + MaxFetchTime)

(***************************************************************************)
(* Annotation values are sequences: of characters where the code converts *)
(* or tests them by prefix, in one piece where it only compares them.      *)
(* Names and messages are TLA+ strings.                                    *)
(***************************************************************************)
Upper == <<"A","B","C","D","E","F","G","H","I","J","K","L","M",
           "N","O","P","Q","R","S","T","U","V","W","X","Y","Z">>
Lower == <<"a","b","c","d","e","f","g","h","i","j","k","l","m",
           "n","o","p","q","r","s","t","u","v","w","x","y","z">>

ToLowerChar(c) ==
    IF \E i \in 1..26 : Upper[i] = c
    THEN Lower[CHOOSE i \in 1..26 : Upper[i] = c]
    ELSE c

\* strings.ToLower
ToLower(s) == [i \in 1..Len(s) |-> ToLowerChar(s[i])]

\* strings.HasPrefix
HasPrefix(s, prefix) ==
    /\ Len(s) >= Len(prefix)
    /\ SubSeq(s, 1, Len(prefix)) = prefix

EmptyStr == << >>
StrTrue == <<"t","r","u","e">>
StrTrueCap == <<"T","r","u","e">>
StrPending == <<"p","e","n","d","i","n","g">>
StrErr == <<"e","r","r">>
StrError == <<"E","r","r","o","r">>

\* Values the webhook status annotation takes in the model.
StatusValues == {EmptyStr, StrTrue, StrTrueCap, StrPending, StrError}
\* Values the webhook error annotation takes in the model.
FailDenied == <<"webhook creation denied">>
FailQuota == <<"quota exceeded">>
FailureValues == {EmptyStr, FailDenied, FailQuota}

StatusKey == "webhook.jenkins-x.io"
ErrorKey == "webhook.jenkins-x.io/error"

(***************************************************************************)
(* Options, as the flags and Validate leave them.                          *)
(***************************************************************************)
OwnerName == "acme"
RepositoryName == "widgets"
LighthouseConfigMap == "config"
Namespace == "jx"

\* scm.Join
Join(owner, repository) == <<owner, "/", repository>>

TargetName == Join(OwnerName, RepositoryName)
OtherName == Join(OwnerName, "gadgets")
RepoNames == {TargetName, OtherName}

\* naming.ToValidName(owner + "-" + repository), for names that are valid already
SourceRepositoryName(owner, repository) == <<owner, "-", repository>>

(***************************************************************************)
(* Errors: the wrapping message of Run, the message of the phase, and what *)
(* the message names.                                                      *)
(***************************************************************************)
NoName == << >>
Nil == [wrap |-> "", msg |-> "", name |-> NoName, repo |-> NoName]

MkErr(msg, name, repo) == [wrap |-> "", msg |-> msg, name |-> name, repo |-> repo]

\* errors.Wrapf
Wrapf(err, text) == [err EXCEPT !.wrap = text]

MsgLoadFailed == "failed to load lighthouse config"
MsgTimeout == "failed to find trigger in the lighthouse configuration in ConfigMap"
MsgGetFailed == "failed to find SourceRepository"
MsgNotSetup == "repository is not yet setup in lighthouse"
\* What the text of an error says could not be found, and the kind of
\* object it presents its name argument as.
Subject(msg) ==
    CASE msg = MsgTimeout -> [sought |-> "trigger", kind |-> "ConfigMap"]
      [] msg = MsgGetFailed -> [sought |-> "SourceRepository", kind |-> "SourceRepository"]
      [] msg = MsgLoadFailed -> [sought |-> "lighthouse config", kind |-> "none"]
      [] OTHER -> [sought |-> "none", kind |-> "none"]
WrapValidate == "failed to validate options"
WrapTrigger == "failed to wait for repository to be setup in lighthouse"
WrapWebhook == "failed to wait for repository to have its webhook enabled"

(***************************************************************************)
(* The trigger configuration (config.Config of lighthouse): Postsubmits    *)
(* and Presubmits map a repository name to a list of jobs, and             *)
(* InRepoConfig.Enabled maps it to a *bool.  A Go map is a function on the *)
(* keys it holds; reading another key gives the zero value.                *)
(***************************************************************************)
\* Go's m[key]
MapGet(m, key, zero) == IF key \in DOMAIN m THEN m[key] ELSE zero

\* The maps over RepoNames whose entry for the target is in forTarget and
\* whose entry for the other repository is in forOther.
MapsOver(forTarget, forOther) ==
    { m \in UNION { [D -> forTarget \cup forOther] : D \in SUBSET RepoNames } :
        /\ TargetName \in DOMAIN m => m[TargetName] \in forTarget
        /\ OtherName \in DOMAIN m => m[OtherName] \in forOther }

\* a list of jobs: nil, empty or holding jobs
JobLists == {"nil", "empty", "jobs"}
\* a *bool: nil, or pointing to a boolean
BoolPointers == {"nilptr", "true", "false"}

EmptyMap == [k \in {} |-> "nil"]

\* The configurations a load returns.
Configs ==
    [ isNil : {FALSE},
      postsubmits : MapsOver(JobLists, {"jobs"}),
      presubmits : MapsOver({"jobs"}, {}),
      enabledIsNil : {FALSE},
      enabled : MapsOver(BoolPointers, {"true"}) ]
    \cup
    [ isNil : {FALSE},
      postsubmits : MapsOver(JobLists, {"jobs"}),
      presubmits : MapsOver({"jobs"}, {}),
      enabledIsNil : {TRUE},
      enabled : {EmptyMap} ]

\* cfg before a load, and after a load that failed: a nil *config.Config
NilConfig == [isNil |-> TRUE, postsubmits |-> EmptyMap, presubmits |-> EmptyMap,
              enabledIsNil |-> TRUE, enabled |-> EmptyMap]

\* Faulty variant: the override map is consulted before the direct map.
ContainsOverrideFirst(cfg, fullName) ==
    IF ~cfg.enabledIsNil /\ MapGet(cfg.enabled, fullName, "nilptr") # "nilptr"
    THEN MapGet(cfg.enabled, fullName, "nilptr") = "true"
    ELSE MapGet(cfg.postsubmits, fullName, "nil") # "nil"

\* Faulty variant: an entry of the override map counts whatever it points to.
ContainsAnyEntry(cfg, fullName) ==
    \/ MapGet(cfg.postsubmits, fullName, "nil") # "nil"
    \/ /\ ~cfg.enabledIsNil
       /\ MapGet(cfg.enabled, fullName, "nilptr") # "nilptr"

\* Options.containsRepositoryTrigger
containsRepositoryTrigger(cfg, fullName) ==
    IF MapGet(cfg.postsubmits, fullName, "nil") # "nil"
    THEN TRUE
    ELSE IF ~cfg.enabledIsNil /\ MapGet(cfg.enabled, fullName, "nilptr") # "nilptr"
         THEN MapGet(cfg.enabled, fullName, "nilptr") = "true"
         ELSE FALSE

(***************************************************************************)
(* The SourceRepository: what a Get returns.  The annotations are a Go map *)
(* (possibly nil) from keys to non-empty strings.                          *)
(***************************************************************************)
AnnotationMaps ==
    { m \in UNION { [D -> (StatusValues \cup FailureValues) \ {EmptyStr}] :
                       D \in SUBSET {StatusKey, ErrorKey} } :
        /\ StatusKey \in DOMAIN m => m[StatusKey] \in StatusValues \ {EmptyStr}
        /\ ErrorKey \in DOMAIN m => m[ErrorKey] \in FailureValues \ {EmptyStr} }

NoAnnotations == [k \in {} |-> EmptyStr]

Found == [result : {"found"}, annotationsIsNil : {FALSE}, annotations : AnnotationMaps]
             \cup {[result |-> "found", annotationsIsNil |-> TRUE, annotations |-> NoAnnotations]}
NotFound == [result |-> "notfound", annotationsIsNil |-> TRUE, annotations |-> NoAnnotations]
GetFailed == [result |-> "error", annotationsIsNil |-> TRUE, annotations |-> NoAnnotations]
\* sr and err before the first Get
NoFetch == [result |-> "none", annotationsIsNil |-> TRUE, annotations |-> NoAnnotations]

GetResults == Found \cup {NotFound, GetFailed}

\* sr.Annotations[StatusKey], after a nil map was replaced by an empty one
StatusOf(r) == MapGet(r.annotations, StatusKey, EmptyStr)
\* sr.Annotations[ErrorKey]
FailureOf(r) == MapGet(r.annotations, ErrorKey, EmptyStr)

(***************************************************************************)
(* The clock and the deadlines.                                            *)
(***************************************************************************)
\* Faulty variant: the deadline is never reached.
AfterNever(t, end) == FALSE

\* time.Time.After
After(t, end) == t > end

VARIABLES
    pc,              \* position of Run
    now,             \* the wall clock
    o,               \* the Options
    exists, err,     \* Run: what the phase just ended returned
    runErr,          \* what Run returned
    tEnd, tLogWaiting, cfg, flag,       \* locals of waitForRepositoryToBeSetup
    wEnd, wLogWaiting, lastValue, found, lastFailMessage, sr,
                                        \* locals of waitForWebHookToBeSetup
    log,             \* the lines logged, in order
    nLoads,          \* calls of LoadLighthouseConfig
    nFetches,        \* calls of SourceRepositories(ns).Get
    tSleeps, wSleeps,\* sleeps of each phase
    tStart, wStart,  \* the clock when each phase was entered
    every,           \* what every Get of the webhook phase returned so far, if they agree
    scenario,        \* how far the Gets of the webhook phase follow ScenarioGets
    lastSeen         \* the last non-empty status a Get of the webhook phase showed

vars == <<pc, now, o, exists, err, runErr, tEnd, tLogWaiting, cfg, flag,
          wEnd, wLogWaiting, lastValue, found, lastFailMessage, sr,
          log, nLoads, nFetches, tSleeps, wSleeps, tStart, wStart, every, scenario, lastSeen>>

runVars == <<exists, err, runErr>>
triggerVars == <<tEnd, tLogWaiting, cfg, flag>>
webhookVars == <<wEnd, wLogWaiting, lastValue, found, lastFailMessage, sr>>

\* Faulty variant: the webhook phase reuses the deadline of the trigger phase.
DeadlineShared(t, d) == IF pc = "WebhookEnter" THEN tEnd ELSE t + d

\* time.Now().Add(o.WaitDuration)
Deadline(t, d) == t + d

(***************************************************************************)
(* Log lines.                                                              *)
(***************************************************************************)
Line(text, arg) == [text |-> text, arg |-> arg]

LineWaitingTrigger == Line("waiting for a trigger", EmptyStr)
LineWaitingWebhook == Line("waiting for the webhook", EmptyStr)
LineFound == Line("found SourceRepository", EmptyStr)
LineStatus(value) == Line("webhook status annotation is", value)
LineWarning(failure) == Line("when creating webhook", failure)
LineConfirm == Line("is now setup in lighthouse and has its webhook enabled", EmptyStr)

\* how often the line was logged
Count(line) == Cardinality({i \in 1..Len(log) : log[i] = line})

(***************************************************************************)
(* Options.Validate                                                        *)
(***************************************************************************)
MsgNoKubeClient == "failed to create kube client"
MsgNoJXClient == "failed to create jx client"
MsgMissingOwner == "missing option: owner"
MsgMissingRepo == "missing option: repo"

\* what creating the clients gives
ClientResults == {"ok", "nokube", "nojx"}

ValidateResult(clients, owner, repository) ==
    IF clients = "nokube" THEN MkErr(MsgNoKubeClient, NoName, NoName)
    ELSE IF clients = "nojx" THEN MkErr(MsgNoJXClient, NoName, NoName)
    ELSE IF owner = "" THEN MkErr(MsgMissingOwner, NoName, NoName)
    ELSE IF repository = "" THEN MkErr(MsgMissingRepo, NoName, NoName)
    ELSE Nil

(***************************************************************************)
(* The decisions of the two loops and of Run, as functions of what they    *)
(* read.                                                                   *)
(***************************************************************************)
\* Faulty variant: the error of the load is not looked at.
LoadFailedIgnored(c) == FALSE

\* err != nil after triggers.LoadLighthouseConfig
LoadFailed(c) == c.isNil

\* Faulty variant: past the deadline the result of the check is returned with no error.
TriggerStepGivesUp(f, t, end) ==
    IF f \/ After(t, end) THEN "return" ELSE "sleep"

\* Faulty variant: the deadline is tested before the result of the check.
TriggerStepDeadlineFirst(f, t, end) ==
    IF After(t, end) THEN "timeout" ELSE IF f THEN "return" ELSE "sleep"

\* waitForRepositoryToBeSetup, after a load that succeeded
TriggerStep(f, t, end) ==
    IF f THEN "return" ELSE IF After(t, end) THEN "timeout" ELSE "sleep"

\* Faulty variant: the line is logged before every sleep.
WaitingLinesEveryTime(logWaiting, line) == <<line>>

\* the "waiting up to" line of either loop
WaitingLines(logWaiting, line) == IF ~logWaiting THEN <<line>> ELSE << >>

\* Faulty variant: Run goes on to the webhook phase whatever the trigger phase returned.
TriggerVerdictIgnored(ex, e) == "continue"

\* Run, on the result of waitForRepositoryToBeSetup
TriggerVerdict(ex, e) ==
    IF e # Nil THEN "wrap" ELSE IF ~ex THEN "notsetup" ELSE "continue"

\* Faulty variant: any non-empty status counts as success.
IsSuccessAny(value) == value # EmptyStr

\* Faulty variant: the status is compared without regard to case.
IsSuccessAnyCase(value) == ToLower(value) = StrTrue

\* Faulty variant: no status ends the wait.
IsSuccessNever(value) == FALSE

\* value == "true"
IsSuccess(value) == value = StrTrue

\* strings.HasPrefix(strings.ToLower(value), "err")
IsFailure(value) == HasPrefix(ToLower(value), StrErr)

\* Faulty variant: the value is not compared with the one logged last.
ChangedAlways(value, last) == value # EmptyStr

\* value != "" && value != lastValue
Changed(value, last) == value # EmptyStr /\ value # last

\* Faulty variant: the value logged is not remembered.
NewLastValueForgotten(value, last) == last

\* lastValue after the poll
NewLastValue(value, last) == IF Changed(value, last) THEN value ELSE last

\* Faulty variant: every failed status seen with an error detail is warned about.
WarnsEveryFailure(value, last, failure, lastFail) ==
    IsFailure(value) /\ failure # EmptyStr

\* whether the poll logs the warning
Warns(value, last, failure, lastFail) ==
    /\ Changed(value, last)
    /\ ~IsSuccess(value)
    /\ IsFailure(value)
    /\ failure # EmptyStr
    /\ failure # lastFail

\* lastFailMessage after the poll
NewLastFail(value, last, failure, lastFail) ==
    IF Warns(value, last, failure, lastFail) THEN failure ELSE lastFail

\* the lines a poll logs for a SourceRepository it found
FoundLines(wasFound, value, last, failure, lastFail) ==
    (IF ~wasFound THEN <<LineFound>> ELSE << >>)
    \o (IF Changed(value, last) THEN <<LineStatus(value)>> ELSE << >>)
    \o (IF Warns(value, last, failure, lastFail) THEN <<LineWarning(failure)>> ELSE << >>)

\* Faulty variant: an absent resource is taken for any other Get error.
IsNotFoundNever(r) == FALSE

\* apierrors.IsNotFound(err)
IsNotFound(r) == r.result = "notfound"

\* err != nil && !apierrors.IsNotFound(err): the Get error that is returned
GetFails(r) == r.result # "found" /\ ~IsNotFound(r)

\* Faulty variant: a failed status ends the wait.
WebhookStepFailFast(result, value, last, t, end) ==
    IF result = "found" /\ Changed(value, last) /\ IsSuccess(value) THEN "return"
    ELSE IF result = "found" /\ IsFailure(value) THEN "timeout"
    ELSE IF After(t, end) THEN "timeout"
    ELSE "sleep"

\* waitForWebHookToBeSetup, after a Get that did not fail
WebhookStep(result, value, last, t, end) ==
    IF result = "found" /\ Changed(value, last) /\ IsSuccess(value) THEN "return"
    ELSE IF After(t, end) THEN "timeout"
    ELSE "sleep"

\* The record of what the Gets of a phase returned: nothing yet, the same
\* result every time, or results that differ.
NoGets == [kind |-> "none", result |-> NoFetch]
Agree(e, r) ==
    IF e.kind = "none" THEN [kind |-> "all", result |-> r]
    ELSE IF e.kind = "all" /\ e.result = r THEN e
    ELSE [kind |-> "mixed", result |-> NoFetch]

\* What three Gets in a row show when the resource is first absent, then
\* has a pending webhook, then has the webhook registered.
ScenarioGets == <<EmptyStr, StrPending, StrTrue>>
Off == Len(ScenarioGets) + 1
\* how many Gets of the phase have followed ScenarioGets, or Off
Follows(n, r) ==
    IF n >= Len(ScenarioGets) THEN Off
    ELSE IF n = 0 /\ r.result = "notfound" THEN 1
    ELSE IF n > 0 /\ r.result = "found" /\ StatusOf(r) = ScenarioGets[n + 1] THEN n + 1
    ELSE Off

FullName == Join(o.Owner, o.Repository)
SRName == SourceRepositoryName(o.Owner, o.Repository)

(***************************************************************************)
(* Init: Run is about to start, with the options the flags gave.           *)
(***************************************************************************)
Init ==
    /\ pc = "Validate"
    /\ now = 0
    /\ o \in [WaitDuration : WaitDurations, PollPeriod : PollPeriods,
              Owner : {"", OwnerName}, Repository : {"", RepositoryName}]
    /\ exists = FALSE
    /\ err = Nil
    /\ runErr = Nil
    /\ tEnd = 0
    /\ tLogWaiting = FALSE
    /\ cfg = NilConfig
    /\ flag = FALSE
    /\ wEnd = 0
    /\ wLogWaiting = FALSE
    /\ lastValue = EmptyStr
    /\ found = FALSE
    /\ lastFailMessage = EmptyStr
    /\ sr = NoFetch
    /\ log = << >>
    /\ nLoads = 0
    /\ nFetches = 0
    /\ tSleeps = 0
    /\ wSleeps = 0
    /\ tStart = 0
    /\ wStart = 0
    /\ every = NoGets
    /\ scenario = 0
    /\ lastSeen = EmptyStr

\* Run, lines 105-110
Validate ==
    /\ pc = "Validate"
    /\ \E clients \in ClientResults :
         LET e == ValidateResult(clients, o.Owner, o.Repository) IN
         IF e # Nil
         THEN /\ pc' = "Failed"
              /\ runErr' = Wrapf(e, WrapValidate)
         ELSE /\ pc' = "TriggerEnter"
              /\ runErr' = runErr
    /\ UNCHANGED <<now, o, exists, err, triggerVars, webhookVars, log,
                   nLoads, nFetches, tSleeps, wSleeps, tStart, wStart, every, scenario, lastSeen>>

\* waitForRepositoryToBeSetup, lines 130-132
TriggerEnter ==
    /\ pc = "TriggerEnter"
    /\ tEnd' = Deadline(now, o.WaitDuration)
    /\ tLogWaiting' = FALSE
    /\ tStart' = now
    /\ pc' = "TriggerPoll"
    /\ UNCHANGED <<now, o, runVars, cfg, flag, webhookVars, log,
                   nLoads, nFetches, tSleeps, wSleeps, wStart, every, scenario, lastSeen>>

\* waitForRepositoryToBeSetup, one iteration up to the sleep: lines 135-151
TriggerPoll ==
    /\ pc = "TriggerPoll"
    /\ \E d \in FetchTimes, c \in Configs \cup {NilConfig} :
         /\ now' = now + d
         /\ cfg' = c
         /\ IF LoadFailed(c)
            THEN /\ exists' = FALSE
                 /\ err' = MkErr(MsgLoadFailed, <<LighthouseConfigMap>>, NoName)
                 /\ pc' = "TriggerReturned"
                 /\ UNCHANGED <<flag, tLogWaiting, log>>
            ELSE LET f == containsRepositoryTrigger(c, FullName)
                     step == TriggerStep(f, now + d, tEnd)
                 IN  /\ flag' = f
                     /\ CASE step = "return" ->
                               /\ exists' = f
                               /\ err' = Nil
                               /\ pc' = "TriggerReturned"
                               /\ UNCHANGED <<tLogWaiting, log>>
                          [] step = "timeout" ->
                               /\ exists' = FALSE
                               /\ err' = MkErr(MsgTimeout, <<LighthouseConfigMap>>, FullName)
                               /\ pc' = "TriggerReturned"
                               /\ UNCHANGED <<tLogWaiting, log>>
                          [] step = "sleep" ->
                               /\ log' = log \o WaitingLines(tLogWaiting, LineWaitingTrigger)
                               /\ tLogWaiting' = TRUE
                               /\ pc' = "TriggerSleep"
                               /\ UNCHANGED <<exists, err>>
    /\ nLoads' = nLoads + 1
    /\ UNCHANGED <<o, runErr, tEnd, webhookVars, nFetches, tSleeps, wSleeps, tStart, wStart, every, scenario, lastSeen>>

\* time.Sleep(o.PollPeriod) taking d ticks, line 152
TriggerSleepFor(d) ==
    /\ pc = "TriggerSleep"
    /\ now + d <= tStart + PhaseSpan
    /\ now' = now + d
    /\ tSleeps' = tSleeps + 1
    /\ cfg' = NilConfig      \* cfg and flag are scoped to the iteration
    /\ flag' = FALSE
    /\ pc' = "TriggerPoll"
    /\ UNCHANGED <<o, runVars, tEnd, tLogWaiting, webhookVars, log, nLoads, nFetches,
                   wSleeps, tStart, wStart, every, scenario, lastSeen>>

TriggerSleep == \E d \in SleepTimes(o.PollPeriod) : TriggerSleepFor(d)

\* Run, lines 113-119
RunAfterTrigger ==
    /\ pc = "TriggerReturned"
    /\ LET verdict == TriggerVerdict(exists, err) IN
       CASE verdict = "wrap" ->
              /\ runErr' = Wrapf(err, WrapTrigger)
              /\ pc' = "Failed"
         [] verdict = "notsetup" ->
              /\ runErr' = MkErr(MsgNotSetup, NoName, FullName)
              /\ pc' = "Failed"
         [] verdict = "continue" ->
              /\ runErr' = runErr
              /\ pc' = "WebhookEnter"
    /\ cfg' = NilConfig
    /\ flag' = FALSE
    /\ UNCHANGED <<now, o, exists, err, tEnd, tLogWaiting, webhookVars, log,
                   nLoads, nFetches, tSleeps, wSleeps, tStart, wStart, every, scenario, lastSeen>>

\* waitForWebHookToBeSetup, lines 157-165
WebhookEnter ==
    /\ pc = "WebhookEnter"
    /\ wEnd' = Deadline(now, o.WaitDuration)
    /\ wLogWaiting' = FALSE
    /\ lastValue' = EmptyStr
    /\ found' = FALSE
    /\ lastFailMessage' = EmptyStr
    /\ wStart' = now
    /\ every' = NoGets
    /\ scenario' = 0
    /\ lastSeen' = EmptyStr
    /\ pc' = "WebhookPoll"
    /\ UNCHANGED <<now, o, runVars, triggerVars, sr, log,
                   nLoads, nFetches, tSleeps, wSleeps, tStart>>

\* waitForWebHookToBeSetup, one iteration up to the sleep: lines 168-210
WebhookPoll ==
    /\ pc = "WebhookPoll"
    /\ \E d \in FetchTimes, r \in GetResults :
         LET value == StatusOf(r)
             failure == FailureOf(r)
             step == WebhookStep(r.result, value, lastValue, now + d, wEnd)
             lines == IF r.result = "found"
                      THEN FoundLines(found, value, lastValue, failure, lastFailMessage)
                      ELSE << >>
         IN
         /\ now' = now + d
         /\ sr' = r
         /\ every' = Agree(every, r)
         /\ scenario' = Follows(scenario, r)
         /\ lastSeen' = IF r.result = "found" /\ value # EmptyStr THEN value ELSE lastSeen
         /\ IF GetFails(r)
            THEN /\ err' = MkErr(MsgGetFailed, SRName, NoName)
                 /\ pc' = "WebhookReturned"
                 /\ UNCHANGED <<wLogWaiting, lastValue, found, lastFailMessage, log>>
            ELSE /\ found' = (found \/ r.result = "found")
                 /\ lastValue' = IF r.result = "found"
                                 THEN NewLastValue(value, lastValue) ELSE lastValue
                 /\ lastFailMessage' =
                        IF r.result = "found"
                        THEN NewLastFail(value, lastValue, failure, lastFailMessage)
                        ELSE lastFailMessage
                 /\ CASE step = "return" ->
                           /\ err' = Nil
                           /\ pc' = "WebhookReturned"
                           /\ log' = log \o lines
                           /\ UNCHANGED wLogWaiting
                      [] step = "timeout" ->
                           /\ err' = MkErr(MsgTimeout, SRName, FullName)
                           /\ pc' = "WebhookReturned"
                           /\ log' = log \o lines
                           /\ UNCHANGED wLogWaiting
                      [] step = "sleep" ->
                           /\ log' = log \o lines
                                         \o WaitingLines(wLogWaiting, LineWaitingWebhook)
                           /\ wLogWaiting' = TRUE
                           /\ pc' = "WebhookSleep"
                           /\ UNCHANGED err
    /\ nFetches' = nFetches + 1
    /\ UNCHANGED <<o, exists, runErr, triggerVars, wEnd, nLoads, tSleeps, wSleeps,
                   tStart, wStart>>

\* time.Sleep(o.PollPeriod) taking d ticks, line 211
WebhookSleepFor(d) ==
    /\ pc = "WebhookSleep"
    /\ now + d <= wStart + PhaseSpan
    /\ now' = now + d
    /\ wSleeps' = wSleeps + 1
    /\ sr' = NoFetch         \* sr is scoped to the iteration
    /\ pc' = "WebhookPoll"
    /\ UNCHANGED <<o, runVars, triggerVars, wEnd, wLogWaiting, lastValue, found,
                   lastFailMessage, log, nLoads, nFetches, tSleeps, tStart, wStart, every, scenario, lastSeen>>

WebhookSleep == \E d \in SleepTimes(o.PollPeriod) : WebhookSleepFor(d)

\* Run, lines 121-126
RunAfterWebhook ==
    /\ pc = "WebhookReturned"
    /\ IF err # Nil
       THEN /\ runErr' = Wrapf(err, WrapWebhook)
            /\ pc' = "Failed"
            /\ UNCHANGED log
       ELSE /\ runErr' = Nil
            /\ log' = log \o <<LineConfirm>>
            /\ pc' = "Done"
    /\ UNCHANGED <<now, o, exists, err, triggerVars, webhookVars,
                   nLoads, nFetches, tSleeps, wSleeps, tStart, wStart, every, scenario, lastSeen>>

Next ==
    \/ Validate
    \/ TriggerEnter
    \/ TriggerPoll
    \/ TriggerSleep
    \/ RunAfterTrigger
    \/ WebhookEnter
    \/ WebhookPoll
    \/ WebhookSleep
    \/ RunAfterWebhook

Spec == Init /\ [][Next]_vars

\* Run is one sequential flow that keeps running: every load, Get and sleep
\* returns, and the step after it is taken.
LiveSpec == Spec /\ WF_vars(Next)

(***************************************************************************)
(* Properties of the model itself.                                         *)
(***************************************************************************)
TypeOK ==
    /\ pc \in {"Validate", "TriggerEnter", "TriggerPoll", "TriggerSleep",
               "TriggerReturned", "WebhookEnter", "WebhookPoll", "WebhookSleep",
               "WebhookReturned", "Done", "Failed"}
    /\ now \in 0 .. Horizon
    /\ cfg \in Configs \cup {NilConfig}
    /\ sr \in GetResults \cup {NoFetch}
    /\ lastValue \in StatusValues
    /\ lastFailMessage \in FailureValues
    /\ exists \in BOOLEAN /\ flag \in BOOLEAN /\ found \in BOOLEAN
    /\ tLogWaiting \in BOOLEAN /\ wLogWaiting \in BOOLEAN
    /\ scenario \in 0 .. Off
    /\ lastSeen \in StatusValues

\* The guards of the sleeps never hold a sleep back.
SleepsWithinSpan ==
    /\ pc = "TriggerSleep" => now + MaxPollPeriod <= tStart + PhaseSpan
    /\ pc = "WebhookSleep" => now + MaxPollPeriod <= wStart + PhaseSpan

Terminated == pc \in {"Done", "Failed"}
InWebhookPhase == pc \in {"WebhookPoll", "WebhookSleep", "WebhookReturned"}
\* the trigger phase returned after a load that succeeded, or is about to sleep
TriggerChecked == pc \in {"TriggerReturned", "TriggerSleep"} /\ ~cfg.isNil
IsTimeout(e) == e.msg = MsgTimeout
\* the status lines logged, in order
IsStatusLine(line) == line.text = LineStatus(EmptyStr).text
StatusLines == SelectSeq(log, IsStatusLine)

(***************************************************************************)
(* C1.  Run ends in Done, returning nil and printing the confirmation      *)
(* line, only if the trigger phase returned true and the last Get of the   *)
(* webhook phase returned the SourceRepository with status exactly "true"; *)
(* whenever Run ends otherwise it returns an error, and the confirmation   *)
(* line is printed in no state but Done.                                   *)
(***************************************************************************)
C1_DoneOnlyAfterTriggerAndWebhook ==
    /\ pc = "Done" =>
         /\ exists
         /\ nLoads >= 1
         /\ sr.result = "found"
         /\ StatusOf(sr) = StrTrue
         /\ runErr = Nil
         /\ Count(LineConfirm) = 1
    /\ pc = "Failed" => runErr # Nil
    /\ pc # "Done" => Count(LineConfirm) = 0

C1_Witness == pc = "Done" /\ nLoads >= 2 /\ nFetches >= 2

(***************************************************************************)
(* C2.  Every Get of the webhook phase happens after the trigger phase     *)
(* returned success (true, nil); once a Get has happened the configuration *)
(* is not loaded again; and when Run fails in the trigger phase no Get has *)
(* happened.                                                               *)
(***************************************************************************)
C2_TriggerPhaseBeforeWebhookPhase ==
    [][ /\ nFetches' # nFetches => (exists /\ err = Nil /\ nLoads >= 1)
        /\ nFetches > 0 => nLoads' = nLoads
        /\ (pc' = "Failed" /\ runErr'.wrap = WrapTrigger) => nFetches' = 0
        /\ pc' = "WebhookEnter" => (pc = "TriggerReturned" /\ exists /\ err = Nil)
      ]_vars

C2_Witness == nLoads >= 2 /\ nFetches >= 2

(***************************************************************************)
(* C3.  Every run terminates: it reaches Done or Failed.  (The clock       *)
(* advances across every sleep: SleepTimes.)                               *)
(***************************************************************************)
C3_RunTerminates == <>Terminated

\* a run whose two phases both polled until no time was left
C3_Witness ==
    /\ pc = "Failed"
    /\ IsTimeout(runErr)
    /\ runErr.wrap = WrapWebhook
    /\ tSleeps >= 1
    /\ wSleeps >= 1

(***************************************************************************)
(* C4, as claimed.  With a zero or negative wait duration each phase makes *)
(* exactly one check and never sleeps.                                     *)
(***************************************************************************)
C4_OneCheckWhenWaitNotPositive ==
    o.WaitDuration <= 0 =>
        /\ nLoads <= 1 /\ tSleeps = 0
        /\ nFetches <= 1 /\ wSleeps = 0

(***************************************************************************)
(* C4, amended.  In both phases the check comes before the deadline test,  *)
(* and the test is strict.  A phase sleeps only when the clock, read after *)
(* the check, is not later than the deadline; so with a negative wait      *)
(* duration each phase makes exactly one check and never sleeps.  A check  *)
(* that succeeds returns success also when the deadline has passed; a      *)
(* check that neither succeeds nor fails with an error returns the         *)
(* timeout error only when the clock is later than the deadline.           *)
(***************************************************************************)
C4_CheckBeforeStrictDeadline ==
    /\ pc = "TriggerSleep" => now <= tEnd
    /\ pc = "WebhookSleep" => now <= wEnd
    /\ o.WaitDuration < 0 =>
         /\ nLoads <= 1 /\ tSleeps = 0
         /\ nFetches <= 1 /\ wSleeps = 0
    /\ (pc = "TriggerReturned" /\ ~cfg.isNil) =>
         /\ flag => (exists /\ err = Nil)
         /\ ~flag => (~exists /\ IsTimeout(err) /\ now > tEnd)
    /\ (pc = "WebhookReturned" /\ sr.result # "error") =>
         /\ (sr.result = "found" /\ StatusOf(sr) = StrTrue) => err = Nil
         /\ ~(sr.result = "found" /\ StatusOf(sr) = StrTrue) =>
                (IsTimeout(err) /\ now > wEnd)

\* both checks succeeded although both deadlines had passed
C4_Witness ==
    /\ pc = "Done"
    /\ o.WaitDuration < 0
    /\ nLoads = 1
    /\ nFetches = 1
    /\ now > wEnd

C6_OverrideValueVerbatim ==
    (TriggerChecked /\ FullName \notin DOMAIN cfg.postsubmits) =>
        /\ (cfg.enabledIsNil \/ FullName \notin DOMAIN cfg.enabled) => ~flag
        /\ (~cfg.enabledIsNil /\ FullName \in DOMAIN cfg.enabled) =>
              /\ cfg.enabled[FullName] = "true" => flag
              /\ cfg.enabled[FullName] = "false" => ~flag
        /\ ~flag => (pc = "TriggerSleep" \/ (~exists /\ IsTimeout(err)))

\* a stored false, and the phase about to poll again
C6_Witness ==
    /\ pc = "TriggerSleep"
    /\ FullName \notin DOMAIN cfg.postsubmits
    /\ ~cfg.enabledIsNil
    /\ FullName \in DOMAIN cfg.enabled
    /\ cfg.enabled[FullName] = "false"
    /\ ~flag

\* the value starts with "err" in any mix of cases
ErrPrefixed(value) ==
    /\ Len(value) >= 3
    /\ value[1] \in {"e", "E"}
    /\ value[2] \in {"r", "R"}
    /\ value[3] \in {"r", "R"}

(***************************************************************************)
(* C7.  A failed webhook status (prefixed "err" in any case) does not end  *)
(* the webhook phase: when the phase returns on a poll that observed one,  *)
(* it returns the timeout error and the clock is past the deadline; and a  *)
(* poll that observes "true" returns success, also after failed statuses   *)
(* were observed and warned about.                                         *)
(***************************************************************************)
C7_FailedStatusDoesNotEndWait ==
    /\ ( /\ pc = "WebhookReturned"
         /\ sr.result = "found"
         /\ ErrPrefixed(StatusOf(sr)) ) => (IsTimeout(err) /\ now > wEnd)
    /\ ( /\ pc = "WebhookReturned"
         /\ sr.result = "found"
         /\ StatusOf(sr) = StrTrue ) => err = Nil

\* a failed status with its detail was observed, and "true" two polls later
C7_Witness ==
    /\ pc = "Done"
    /\ Count(LineStatus(StrError)) = 1
    /\ lastFailMessage # EmptyStr
    /\ wSleeps >= 2

(***************************************************************************)
(* C8.  While every Get of the webhook phase has returned the same failed  *)
(* status with the same non-empty error detail, the warning carrying that  *)
(* detail has been logged exactly once, and the phase returns with the     *)
(* timeout error.                                                          *)
(***************************************************************************)
C8_SameFailureWarnedOnce ==
    ( /\ InWebhookPhase
      /\ every.kind = "all"
      /\ every.result.result = "found"
      /\ ErrPrefixed(StatusOf(every.result))
      /\ FailureOf(every.result) # EmptyStr ) =>
        /\ Count(LineWarning(FailureOf(every.result))) = 1
        /\ Count(LineStatus(StatusOf(every.result))) = 1
        /\ pc = "WebhookReturned" => IsTimeout(err)

\* three polls saw "Error" with "webhook creation denied", then the timeout
C8_Witness ==
    /\ pc = "WebhookReturned"
    /\ every.kind = "all"
    /\ every.result.result = "found"
    /\ StatusOf(every.result) = StrError
    /\ FailureOf(every.result) = FailDenied
    /\ nFetches >= 3
    /\ IsTimeout(err)

(***************************************************************************)
(* C9.  Each phase logs its "waiting" line at most once, when it is about  *)
(* to sleep for the first time: the line has been logged once if the phase *)
(* has slept or is about to, and not at all otherwise.                     *)
(***************************************************************************)
C9_WaitingLoggedOnceBeforeFirstSleep ==
    /\ Count(LineWaitingTrigger) = (IF pc = "TriggerSleep" \/ tSleeps > 0 THEN 1 ELSE 0)
    /\ Count(LineWaitingWebhook) = (IF pc = "WebhookSleep" \/ wSleeps > 0 THEN 1 ELSE 0)

\* both phases slept twice
C9_Witness == pc = "Done" /\ tSleeps >= 2 /\ wSleeps >= 2

(***************************************************************************)
(* C10.  The deadline of the webhook phase is the clock at the entry of    *)
(* the webhook phase plus WaitDuration: the phase does not time out before *)
(* that, however long the trigger phase took.                              *)
(***************************************************************************)
C10_WebhookDeadlineFromOwnEntry ==
    /\ InWebhookPhase => wEnd = wStart + o.WaitDuration
    /\ (pc = "WebhookReturned" /\ IsTimeout(err)) => now > wStart + o.WaitDuration

\* success less than WaitDuration after the entry of the webhook phase, more
\* than WaitDuration after the start of the run
C10_Witness ==
    /\ pc = "Done"
    /\ now > tStart + o.WaitDuration
    /\ now < wStart + o.WaitDuration
    /\ tSleeps >= 1

(***************************************************************************)
(* C11.  When a load of the configuration fails, on the first iteration or *)
(* a later one, the trigger phase returns (false, that error) at once: it  *)
(* does not sleep or load again, also when the deadline has not passed,    *)
(* and Run fails with the wrapped error without a single Get.              *)
(***************************************************************************)
C11_LoadErrorEndsRun ==
    /\ pc = "TriggerSleep" => ~cfg.isNil
    /\ (pc = "TriggerReturned" /\ cfg.isNil) => (~exists /\ err.msg = MsgLoadFailed)
    /\ err.msg = MsgLoadFailed =>
         /\ pc \in {"TriggerReturned", "Failed"}
         /\ tSleeps = nLoads - 1
         /\ nFetches = 0
    /\ (pc = "Failed" /\ err.msg = MsgLoadFailed) =>
         (runErr.msg = MsgLoadFailed /\ runErr.wrap = WrapTrigger)

\* the second load failed before the deadline
C11_Witness ==
    /\ pc = "Failed"
    /\ runErr.msg = MsgLoadFailed
    /\ nLoads = 2
    /\ now <= tEnd

(***************************************************************************)
(* C12.  A Get that reports the SourceRepository as not found never fails  *)
(* the webhook phase: the phase logs, sleeps and polls again, also when    *)
(* the resource was found on an earlier poll, and returns on such a poll   *)
(* only with the timeout error past the deadline.  Any other Get error is  *)
(* returned at once: no sleep and no Get follows it.                       *)
(***************************************************************************)
C12_NotFoundRetriedOtherErrorReturned ==
    /\ (InWebhookPhase /\ sr.result = "notfound") =>
         /\ err.msg # MsgGetFailed
         /\ pc = "WebhookReturned" => (IsTimeout(err) /\ After(now, wEnd))
         /\ pc = "WebhookSleep" => ~After(now, wEnd)
    /\ sr.result = "error" =>
         /\ pc \in {"WebhookReturned", "Failed"}
         /\ err.msg = MsgGetFailed
         /\ wSleeps = nFetches - 1
    /\ err.msg = MsgGetFailed => sr.result = "error"
    /\ (pc = "Failed" /\ err.msg = MsgGetFailed) =>
         (runErr.msg = MsgGetFailed /\ runErr.wrap = WrapWebhook)

\* the resource was found on an earlier poll and is absent on this one
C12_Witness ==
    /\ pc = "WebhookSleep"
    /\ sr.result = "notfound"
    /\ found
    /\ nFetches >= 2

\* a Get error other than not found on a later poll, before the deadline
C12_WitnessError ==
    /\ pc = "Failed"
    /\ runErr.msg = MsgGetFailed
    /\ nFetches >= 2
    /\ ~After(now, wEnd)

(***************************************************************************)
(* C13.  When the first load of the configuration shows the trigger and    *)
(* the Gets show the SourceRepository absent, then with status "pending",  *)
(* then with status "true", Run succeeds after exactly one load and        *)
(* exactly three Gets, with exactly two status lines logged, pending and   *)
(* then true.  In every run the webhook phase returns nil at the first     *)
(* Get that shows "true": no sleep and no Get follows it.                  *)
(***************************************************************************)
C13_AbsentPendingTrue ==
    /\ (scenario = Len(ScenarioGets) /\ nLoads = 1) =>
         /\ pc \in {"WebhookReturned", "Done"}
         /\ err = Nil
         /\ pc = "Done" => runErr = Nil
         /\ nFetches = 3
         /\ wSleeps = 2
         /\ StatusLines = <<LineStatus(StrPending), LineStatus(StrTrue)>>
    /\ (sr.result = "found" /\ StatusOf(sr) = StrTrue) =>
         /\ pc \in {"WebhookReturned", "Done"}
         /\ err = Nil
         /\ wSleeps = nFetches - 1
         /\ Count(LineStatus(StrTrue)) = 1

C13_Witness ==
    /\ pc = "Done"
    /\ scenario = Len(ScenarioGets)
    /\ nLoads = 1
    /\ nFetches = 3

(***************************************************************************)
(* C14.  Every non-empty error detail that a Get shows together with an    *)
(* "err"-prefixed status is logged as a warning exactly once in the phase: *)
(* a detail not shown before is logged also when the status is the one of  *)
(* the poll before, and no detail is logged a second time.                 *)
(***************************************************************************)
C14_EachDetailWarnedOnce ==
    /\ \A f \in FailureValues \ {EmptyStr} : Count(LineWarning(f)) <= 1
    /\ ( /\ InWebhookPhase
         /\ sr.result = "found"
         /\ ErrPrefixed(StatusOf(sr))
         /\ FailureOf(sr) # EmptyStr ) =>
        Count(LineWarning(FailureOf(sr))) = 1

(***************************************************************************)
(* C15 as stated.  Over a webhook phase every non-empty status value that  *)
(* a Get shows is logged exactly once, also when the status comes back to  *)
(* a value shown earlier.                                                  *)
(***************************************************************************)
C15_EachStatusLoggedOnce ==
    /\ \A v \in StatusValues \ {EmptyStr} : Count(LineStatus(v)) <= 1
    /\ (InWebhookPhase /\ sr.result = "found" /\ StatusOf(sr) # EmptyStr) =>
         Count(LineStatus(StatusOf(sr))) = 1

(***************************************************************************)
(* C15 amended.  Every non-empty status value that a Get shows is logged   *)
(* at least once, the last status line is the last non-empty status shown, *)
(* and no two status lines in a row carry the same value; a value that     *)
(* comes back after a different one is logged again.                       *)
(***************************************************************************)
C15_StatusLoggedOncePerRun ==
    /\ \A i \in 1 .. Len(StatusLines) - 1 : StatusLines[i] # StatusLines[i + 1]
    /\ lastSeen = EmptyStr => StatusLines = << >>
    /\ lastSeen # EmptyStr =>
         (StatusLines # << >> /\ StatusLines[Len(StatusLines)] = LineStatus(lastSeen))
    /\ (InWebhookPhase /\ sr.result = "found" /\ StatusOf(sr) # EmptyStr) =>
         /\ lastSeen = StatusOf(sr)
         /\ Count(LineStatus(StatusOf(sr))) >= 1

\* pending, a failed status, pending again: pending is logged twice
C15_Witness ==
    /\ StatusLines = <<LineStatus(StrPending), LineStatus(StrError), LineStatus(StrPending)>>
    /\ nFetches = 3

(***************************************************************************)
(* C16.  A poll of the webhook phase logs a status line exactly when the   *)
(* Get shows a non-empty status that differs from the last non-empty       *)
(* status shown in the phase, and the line carries the status shown; polls *)
(* in a row that show the same status, also with polls showing no status   *)
(* or no resource in between, log it once.                                 *)
(***************************************************************************)
C16_StatusLineIffChanged ==
    [][ pc = "WebhookPoll" =>
          LET value == StatusOf(sr')
              shown == sr'.result = "found" /\ value # EmptyStr /\ value # lastSeen
          IN  SelectSeq(log', IsStatusLine) =
                   IF shown THEN Append(StatusLines, LineStatus(value)) ELSE StatusLines
      ]_vars

\* pending on the first poll, something else on the second, pending again
\* (the waiting line is logged at the end of the first poll)
C16_Witness ==
    /\ InWebhookPhase
    /\ nFetches = 3
    /\ sr.result = "found"
    /\ StatusOf(sr) = StrPending
    /\ every.kind = "mixed"
    /\ \E i \in 1 .. Len(log) - 1 :
         log[i] = LineStatus(StrPending) /\ log[i + 1] = LineWaitingWebhook
    /\ StatusLines = <<LineStatus(StrPending)>>

(***************************************************************************)
(* C17.  The webhook phase returns nil only on a Get that shows the status *)
(* exactly "true".  A Get that finds the resource with any other status    *)
(* (none, no annotations at all, "err"-prefixed, or a value such as "True")*)
(* is handled as pending: the phase sleeps and polls again, and returns on *)
(* such a Get only with the timeout error past the deadline.               *)
(***************************************************************************)
C17_OnlyExactTrueCompletes ==
    /\ (pc = "WebhookReturned" /\ err = Nil) =>
         (sr.result = "found" /\ StatusOf(sr) = StrTrue)
    /\ (InWebhookPhase /\ sr.result = "found" /\ StatusOf(sr) # StrTrue) =>
         /\ pc # "WebhookPoll"
         /\ pc = "WebhookReturned" => (IsTimeout(err) /\ After(now, wEnd))
         /\ pc = "WebhookSleep" => (~After(now, wEnd) /\ err = Nil)

\* "True" is polled past
C17_Witness ==
    /\ pc = "WebhookSleep"
    /\ sr.result = "found"
    /\ StatusOf(sr) = StrTrueCap

\* so is a resource without annotations
C17_WitnessNoAnnotations ==
    /\ pc = "WebhookSleep"
    /\ sr.result = "found"
    /\ sr.annotationsIsNil

(***************************************************************************)
(* C18.  The error a phase returns when its deadline has passed tells      *)
(* which phase timed out and names its target: the one of the trigger      *)
(* phase speaks of the trigger and names the ConfigMap, the one of the     *)
(* webhook phase speaks of the webhook and names the SourceRepository, so  *)
(* that the two can be told apart.                                         *)
(***************************************************************************)
C18_TimeoutNamesItsPhase ==
    /\ (pc = "TriggerReturned" /\ err # Nil /\ ~cfg.isNil) =>
         /\ err.name = <<LighthouseConfigMap>>
         /\ err.repo = FullName
         /\ Subject(err.msg) = [sought |-> "trigger", kind |-> "ConfigMap"]
    /\ (pc = "WebhookReturned" /\ err # Nil /\ sr.result # "error") =>
         /\ err.name = SRName
         /\ err.repo = FullName
         /\ Subject(err.msg).kind = "SourceRepository"
         /\ Subject(err.msg).sought # "trigger"

\* The timeout error of the webhook phase as the code builds it: the name
\* is the one of the SourceRepository, the text is the one of the trigger phase.
C18_WebhookTimeoutHasTriggerText ==
    (pc = "WebhookReturned" /\ err # Nil /\ sr.result # "error") =>
        /\ err.name = SRName
        /\ err.msg = MsgTimeout
        /\ Subject(err.msg) = [sought |-> "trigger", kind |-> "ConfigMap"]

(***************************************************************************)
(* C19.  When the Presubmits map has an entry for the repository, and      *)
(* neither the Postsubmits map nor the override map has one,               *)
(* containsRepositoryTrigger returns true and the trigger phase returns    *)
(* (true, nil).                                                            *)
(***************************************************************************)
C19_PresubmitEntryIsTrigger ==
    ( /\ TriggerChecked
      /\ FullName \in DOMAIN cfg.presubmits
      /\ FullName \notin DOMAIN cfg.postsubmits
      /\ (cfg.enabledIsNil \/ FullName \notin DOMAIN cfg.enabled) ) =>
        /\ flag
        /\ pc = "TriggerReturned"
        /\ exists
        /\ err = Nil

\* What the code does with such a configuration: the check is false, and
\* the phase sleeps or returns the timeout error.
C19_PresubmitEntryNotConsulted ==
    ( /\ TriggerChecked
      /\ FullName \in DOMAIN cfg.presubmits
      /\ FullName \notin DOMAIN cfg.postsubmits
      /\ (cfg.enabledIsNil \/ FullName \notin DOMAIN cfg.enabled) ) =>
        /\ ~flag
        /\ pc = "TriggerReturned" => (~exists /\ IsTimeout(err))

(***************************************************************************)
(* C20.  waitForRepositoryToBeSetup returns true exactly when it returns a *)
(* nil error and false exactly when it returns an error: it never returns  *)
(* (false, nil).  So Run never fails with "repository is not yet setup in  *)
(* lighthouse": every failure of the trigger phase reaches the caller as   *)
(* the error of the phase under the wrap of the wait.                      *)
(***************************************************************************)
C20_TrueExactlyWhenNoError ==
    /\ pc = "TriggerReturned" => (exists <=> err = Nil)
    /\ runErr.msg # MsgNotSetup
    /\ (pc = "Failed" /\ nLoads >= 1 /\ ~exists) =>
         /\ runErr = Wrapf(err, WrapTrigger)
         /\ runErr.msg \in {MsgLoadFailed, MsgTimeout}
         /\ nFetches = 0
    /\ (pc = "Failed" /\ nLoads >= 1 /\ exists) => runErr.wrap = WrapWebhook

\* the deadline passed with no trigger found
C20_Witness ==
    /\ pc = "Failed"
    /\ ~exists
    /\ nLoads >= 1
    /\ IsTimeout(runErr)
    /\ runErr.wrap = WrapTrigger

====
